---- MODULE Spec2Model ----
(***************************************************************************)
(* Model of the catalog service of backend/server.py: two MongoDB          *)
(* collections (actors, movies) behind FastAPI handlers.                   *)
(*                                                                         *)
(* Strings are sequences of one-character strings, so that the regular     *)
(* expression search of the list endpoints can be computed.  A field      *)
(* value is <<>> (None / null) or <<v>>, so that the empty string and the  *)
(* empty list differ from None; id and created_at are plain numbers.       *)
(***************************************************************************)
EXTENDS Integers, Sequences, FiniteSets, TLC

VARIABLES actors, movies, uuids, clock, last, inflight

vars == <<actors, movies, uuids, clock, last, inflight>>

(* ------------------------------ bounds -------------------------------- *)

\* number of uuid4() record identifiers the model lets the server draw
MaxIds == 2

(* ------------------------- program constants -------------------------- *)

DefaultLimit == 50

MaxLimit == 100

SearchLimit == 10

(* --------------------------- Optional values -------------------------- *)

None == <<>>

Some(v) == <<v>>

IsNone(x) == x = <<>>

Val(x) == x[1]

(* ------------------------------ strings ------------------------------- *)

\* str.lower() / the "i" option of $regex, on one character
Lower(c) ==
  CASE c = "A" -> "a"
    [] c = "B" -> "b"
    [] OTHER -> c

\* the truthiness test `if s:` of an Optional[str] parameter
Truthy(x) == ~IsNone(x) /\ Val(x) # <<>>

(* ------------------- PCRE, as MongoDB's $regex uses it ----------------- *)

RECURSIVE ParenDepthOk(_, _, _)
\* parentheses of p[i..] are balanced, starting at nesting depth d
ParenDepthOk(p, i, d) ==
  IF i > Len(p) THEN d = 0
  ELSE IF p[i] = "(" THEN ParenDepthOk(p, i + 1, d + 1)
  ELSE IF p[i] = ")" THEN d > 0 /\ ParenDepthOk(p, i + 1, d - 1)
  ELSE ParenDepthOk(p, i + 1, d)

\* the pattern compiles: balanced groups, every * follows a repeatable item
RegexValid(p) ==
  /\ ParenDepthOk(p, 1, 0)
  /\ \A i \in 1..Len(p) :
       p[i] = "*" => (i > 1 /\ p[i - 1] \notin {"*", "("})

\* one pattern atom against one subject character, caseless
AtomMatch(c, d) == c = "." \/ Lower(c) = Lower(d)

RECURSIVE MatchHere(_, _, _, _)
\* p[i..] matches a prefix of s[j..]  (atoms: literal, '.', each optionally starred)
MatchHere(p, i, s, j) ==
  IF i > Len(p) THEN TRUE
  ELSE IF i + 1 <= Len(p) /\ p[i + 1] = "*"
    THEN \E k \in 0..(Len(s) - j + 1) :
           /\ \A m \in j..(j + k - 1) : AtomMatch(p[i], s[m])
           /\ MatchHere(p, i + 2, s, j + k)
    ELSE /\ j <= Len(s)
         /\ AtomMatch(p[i], s[j])
         /\ MatchHere(p, i + 1, s, j + 1)

\* {"$regex": p, "$options": "i"} on a string value: unanchored search
RegexSearch(p, s) == \E j \in 1..(Len(s) + 1) : MatchHere(p, 1, s, j)

(* ------------------------------ schemas ------------------------------- *)

\* ActorCreate as received: nom and filmographie are <<>> when the body omits them
ActorCreate(nom, age, nationalite, biographie, filmographie) ==
  [nom |-> nom, age |-> age, nationalite |-> nationalite,
   biographie |-> biographie, filmographie |-> filmographie]

\* MovieCreate as received
MovieCreate(nom, annee, genre, description, acteurs, lien_externe) ==
  [nom |-> nom, annee |-> annee, genre |-> genre, description |-> description,
   acteurs |-> acteurs, lien_externe |-> lien_externe]

ValidCreateAny(p) == TRUE

\* pydantic's check of a request body: `nom: str` is required, any str passes
ValidCreate(p) == ~IsNone(p.nom)

\* actor_data.dict(): Field(default_factory=list) fills an omitted filmographie
ActorCreateDict(p) ==
  [nom |-> p.nom, age |-> p.age, nationalite |-> p.nationalite,
   biographie |-> p.biographie,
   filmographie |-> IF IsNone(p.filmographie) THEN Some(<<>>) ELSE p.filmographie]

\* movie_data.dict()
MovieCreateDict(p) ==
  [nom |-> p.nom, annee |-> p.annee, genre |-> p.genre,
   description |-> p.description,
   acteurs |-> IF IsNone(p.acteurs) THEN Some(<<>>) ELSE p.acteurs,
   lien_externe |-> p.lien_externe]

NewIdReused(n) == 1

\* uuid4(): an identifier no earlier call returned (n calls so far)
NewId(n) == n + 1

\* Actor(**actor_dict): id and created_at from the default factories
Actor(d, id, now) ==
  [id |-> id, nom |-> d.nom, age |-> d.age, nationalite |-> d.nationalite,
   biographie |-> d.biographie, photo_profil |-> None,
   filmographie |-> d.filmographie, created_at |-> now]

\* Movie(**movie_dict)
Movie(d, id, now) ==
  [id |-> id, nom |-> d.nom, annee |-> d.annee, genre |-> d.genre,
   description |-> d.description, photo_couverture |-> None,
   acteurs |-> d.acteurs, lien_externe |-> d.lien_externe, created_at |-> now]

(* -------------------------- the document store ------------------------ *)

Ids(coll) == {coll[i].id : i \in 1..Len(coll)}

Matching(coll, id) == {i \in 1..Len(coll) : coll[i].id = id}

FirstMatch(coll, id) == CHOOSE i \in Matching(coll, id) : \A j \in Matching(coll, id) : i <= j

FindOneAny(coll, id) == IF coll = <<>> THEN None ELSE Some(coll[1])

\* collection.find_one({"id": id})
FindOne(coll, id) ==
  IF Matching(coll, id) = {} THEN None ELSE Some(coll[FirstMatch(coll, id)])

\* the document after {"$set": fields}
SetFields(doc, fields) ==
  [f \in DOMAIN doc \cup DOMAIN fields |->
     IF f \in DOMAIN fields THEN fields[f] ELSE doc[f]]

UpdateOneUpsert(coll, id, fields) ==
  IF Matching(coll, id) = {}
    THEN Append(coll, SetFields([id |-> id], fields))
    ELSE [coll EXCEPT ![FirstMatch(coll, id)] = SetFields(@, fields)]

\* collection.update_one({"id": id}, {"$set": fields}): no upsert
UpdateOne(coll, id, fields) ==
  IF Matching(coll, id) = {} THEN coll
  ELSE [coll EXCEPT ![FirstMatch(coll, id)] = SetFields(@, fields)]

\* collection.delete_one({"id": id}): the collection left
DeleteOne(coll, id) ==
  IF Matching(coll, id) = {} THEN coll
  ELSE LET k == FirstMatch(coll, id)
       IN  [i \in 1..(Len(coll) - 1) |-> IF i < k THEN coll[i] ELSE coll[i + 1]]

\* result.deleted_count
DeletedCount(coll, id) == IF Matching(coll, id) = {} THEN 0 ELSE 1

(* ------------------------------ updates ------------------------------- *)

PhotoField(d) == IF "age" \in DOMAIN d THEN "photo_profil" ELSE "photo_couverture"

UpdateDataWithPhoto(d) ==
  [k \in {f \in DOMAIN d : d[f] # None} \cup {PhotoField(d)} |->
     IF k \in DOMAIN d THEN d[k] ELSE None]

\* {k: v for k, v in update.dict().items() if v is not None}
UpdateData(d) == [k \in {f \in DOMAIN d : d[f] # None} |-> d[k]]

(* ------------------------------ queries ------------------------------ *)

\* the filter documents the list endpoints build: an optional $or of one regex
\* over several fields, regexes on single fields, a range on a field, equalities
Query(or, regex, range, eq) == [or |-> or, regex |-> regex, range |-> range, eq |-> eq]

ActorSearchFields == {"nom", "nationalite", "biographie"}

MovieSearchFields == {"nom", "genre", "description"}

\* `if param: query[field] = {"$regex": param, "$options": "i"}`
RegexOn(field, param) == IF Truthy(param) THEN {<<field, Val(param)>>} ELSE {}

\* `if search: query["$or"] = [{f: search_regex} for the fields]`
OrSearch(fields, search) ==
  IF Truthy(search) THEN Some([fields |-> fields, regex |-> Val(search)]) ELSE None

NonZero(x) == IF x # None /\ Val(x) # 0 THEN x ELSE None

ActorQueryTruthyAge(q) ==
  Query(OrSearch(ActorSearchFields, q.search),
        RegexOn("nom", q.nom) \cup RegexOn("nationalite", q.nationalite),
        IF NonZero(q.age_min) # None \/ NonZero(q.age_max) # None
          THEN {[field |-> "age", gte |-> NonZero(q.age_min), lte |-> NonZero(q.age_max)]}
          ELSE {},
        {})

\* the query dict of get_actors
ActorQuery(q) ==
  Query(OrSearch(ActorSearchFields, q.search),
        RegexOn("nom", q.nom) \cup RegexOn("nationalite", q.nationalite),
        IF q.age_min # None \/ q.age_max # None
          THEN {[field |-> "age", gte |-> q.age_min, lte |-> q.age_max]}
          ELSE {},
        {})

\* the query dict of get_movies (`if annee:` drops the year 0)
MovieQuery(q) ==
  Query(OrSearch(MovieSearchFields, q.search),
        RegexOn("nom", q.nom) \cup RegexOn("genre", q.genre),
        {},
        IF NonZero(q.annee) # None THEN {<<"annee", Val(q.annee)>>} ELSE {})

\* every pattern of the filter compiles (else the server raises OperationFailure)
QueryValid(query) ==
  /\ query.or # None => RegexValid(Val(query.or).regex)
  /\ \A r \in query.regex : RegexValid(r[2])

\* {field: {"$regex": re, "$options": "i"}}: null matches no pattern
RegexField(doc, field, re) == doc[field] # None /\ RegexSearch(re, Val(doc[field]))

\* {field: {"$gte": lo, "$lte": hi}}: null lies in no range
RangeField(doc, r) ==
  /\ doc[r.field] # None
  /\ r.gte # None => Val(doc[r.field]) >= Val(r.gte)
  /\ r.lte # None => Val(doc[r.field]) <= Val(r.lte)

\* the document satisfies the filter: its top-level keys are ANDed
DocMatches(doc, query) ==
  /\ query.or # None =>
       \E f \in Val(query.or).fields : RegexField(doc, f, Val(query.or).regex)
  /\ \A r \in query.regex : RegexField(doc, r[1], r[2])
  /\ \A r \in query.range : RangeField(doc, r)
  /\ \A e \in query.eq : doc[e[1]] = Some(e[2])

\* collection.find(query), in the collection's natural order
Find(coll, query) == SelectSeq(coll, LAMBDA doc : DocMatches(doc, query))

Take(docs, n) == IF n >= Len(docs) THEN docs ELSE SubSeq(docs, 1, n)

\* cursor.limit(n): 0 is no limit, a negative n limits to -n
CursorLimit(docs, n) ==
  IF n = 0 THEN docs ELSE IF n < 0 THEN Take(docs, 0 - n) ELSE Take(docs, n)

ToListAll(docs, length) == docs

\* cursor.to_list(length), length >= 0: the first `length` documents
ToList(docs, length) == Take(docs, length)

RECURSIVE DistinctFrom(_, _, _, _)
DistinctFrom(coll, field, i, seen) ==
  IF i > Len(coll) THEN seen
  ELSE IF \E k \in 1..Len(seen) : seen[k] = coll[i][field]
    THEN DistinctFrom(coll, field, i + 1, seen)
    ELSE DistinctFrom(coll, field, i + 1, Append(seen, coll[i][field]))

DistinctWithRepeats(coll, field) == [i \in 1..Len(coll) |-> coll[i][field]]

\* collection.distinct(field): each value of the field once, null included
Distinct(coll, field) == DistinctFrom(coll, field, 1, <<>>)

\* [g for g in values if g]: None and the empty string are dropped
TruthyValues(values) ==
  LET kept == SelectSeq(values, Truthy) IN [i \in 1..Len(kept) |-> Val(kept[i])]

(* ------------------------------ uploads ------------------------------- *)

\* str.startswith on a value held as a sequence of pieces
StartsWith(s, prefix) ==
  Len(s) >= Len(prefix) /\ SubSeq(s, 1, Len(prefix)) = prefix

\* file.content_type.startswith('image/')
IsImage(file) == StartsWith(file.content_type, <<"image/">>)

\* file.filename.split('.')[-1], the file name held as its dot-separated pieces
FileExtension(file) == file.filename[Len(file.filename)]

\* f"/uploads/{kind}_{id}_{uuid4().hex[:8]}.{extension}"
PhotoUrl(kind, id, token, file) == <<"/uploads/", kind, id, token, FileExtension(file)>>

(* ------------------------------- inputs ------------------------------- *)

\* identifiers a client may put in a path: every one the server can issue, and 0
\* which it never issues
PathIds == 0..MaxIds

\* a value of uuid4().hex[:8]
Tokens == {"1f0c9a3e"}

\* request bodies: a full one, one with an empty name and no list, one with no name
ActorPayloads ==
  { ActorCreate(Some(<<"A", "b">>), Some(48), Some(<<"B">>), None, Some(<<1>>)),
    ActorCreate(Some(<<>>), None, None, Some(<<"a">>), None),
    ActorCreate(None, None, Some(<<"a">>), None, None) }

MoviePayloads ==
  { MovieCreate(Some(<<"A", "b">>), Some(2007), Some(<<"a">>), None, Some(<<1>>), None),
    MovieCreate(Some(<<>>), None, None, Some(<<"b", ".">>), None, None),
    MovieCreate(None, None, Some(<<"B">>), None, None, None) }

Files ==
  { [content_type |-> <<"image/", "png">>, filename |-> <<"test", "png">>],
    [content_type |-> <<"text/", "plain">>, filename |-> <<"notes", "txt">>] }

(* ------------------------------ responses ----------------------------- *)

Store == [actors |-> actors, movies |-> movies]

\* what the last request was and how it ended: handler is FALSE when FastAPI
\* rejected the request before calling the handler; pre is the store before it
Response(op, id, req, handler, status, body) ==
  [op |-> op, id |-> id, req |-> req, handler |-> handler, status |-> status,
   body |-> body, pre |-> Store]

NoRequest ==
  [op |-> "none", id |-> 0, req |-> None, handler |-> FALSE, status |-> 0,
   body |-> <<>>, pre |-> [actors |-> <<>>, movies |-> <<>>]]

\* no update_actor request is between two of its awaits
Idle ==
  [pc |-> "idle", id |-> 0, req |-> None, handler |-> FALSE, status |-> 0,
   body |-> <<>>]

Init ==
  /\ actors = <<>>
  /\ movies = <<>>
  /\ uuids = 0
  /\ clock = 0
  /\ last = NoRequest
  /\ inflight = Idle

(* --------------------------- actor endpoints -------------------------- *)

\* POST /api/actors
create_actor(p) ==
  IF ~ValidCreate(p)
    THEN /\ last' = Response("create_actor", 0, p, FALSE, 422, <<>>)
         /\ UNCHANGED <<actors, movies, uuids, clock, inflight>>
    ELSE /\ uuids < MaxIds
         /\ LET actor == Actor(ActorCreateDict(p), NewId(uuids), clock)
            IN  /\ actors' = Append(actors, actor)
                /\ last' = Response("create_actor", actor.id, p, TRUE, 200, <<actor>>)
         /\ uuids' = uuids + 1
         /\ clock' = clock + 1
         /\ UNCHANGED <<movies, inflight>>

\* POST /api/actors/{actor_id}/photo
upload_actor_photo(id, file, token, saved) ==
  /\ IF ~IsImage(file)
       THEN /\ last' = Response("upload_actor_photo", id, file, TRUE, 400, <<>>)
            /\ UNCHANGED actors
       ELSE IF ~saved
       THEN /\ last' = Response("upload_actor_photo", id, file, TRUE, 500, <<>>)
            /\ UNCHANGED actors
       ELSE LET photo_url == PhotoUrl("actor", id, token, file)
            IN  /\ actors' = UpdateOne(actors, id, [photo_profil |-> Some(photo_url)])
                /\ last' = Response("upload_actor_photo", id, file, TRUE, 200, <<photo_url>>)
  /\ UNCHANGED <<movies, uuids, clock, inflight>>

\* GET /api/actors/{actor_id}
get_actor(id) ==
  /\ LET actor == FindOne(actors, id)
     IN  IF IsNone(actor)
           THEN last' = Response("get_actor", id, None, TRUE, 404, <<>>)
           ELSE last' = Response("get_actor", id, None, TRUE, 200, actor)
  /\ UNCHANGED <<actors, movies, uuids, clock, inflight>>

\* PUT /api/actors/{actor_id}
update_actor(id, p) ==
  /\ IF ~ValidCreate(p)
       THEN /\ last' = Response("update_actor", id, p, FALSE, 422, <<>>)
            /\ UNCHANGED actors
       ELSE IF IsNone(FindOne(actors, id))
       THEN /\ last' = Response("update_actor", id, p, TRUE, 404, <<>>)
            /\ UNCHANGED actors
       ELSE LET updated == UpdateOne(actors, id, UpdateData(ActorCreateDict(p)))
            IN  /\ actors' = updated
                /\ last' = Response("update_actor", id, p, TRUE, 200, FindOne(updated, id))
  /\ UNCHANGED <<movies, uuids, clock, inflight>>

\* DELETE /api/actors/{actor_id}
delete_actor(id) ==
  /\ actors' = DeleteOne(actors, id)
  /\ IF DeletedCount(actors, id) = 0
       THEN last' = Response("delete_actor", id, None, TRUE, 404, <<>>)
       ELSE last' = Response("delete_actor", id, None, TRUE, 200, <<>>)
  /\ UNCHANGED <<movies, uuids, clock, inflight>>

(* --------------------------- movie endpoints -------------------------- *)

\* POST /api/movies
create_movie(p) ==
  IF ~ValidCreate(p)
    THEN /\ last' = Response("create_movie", 0, p, FALSE, 422, <<>>)
         /\ UNCHANGED <<actors, movies, uuids, clock, inflight>>
    ELSE /\ uuids < MaxIds
         /\ LET movie == Movie(MovieCreateDict(p), NewId(uuids), clock)
            IN  /\ movies' = Append(movies, movie)
                /\ last' = Response("create_movie", movie.id, p, TRUE, 200, <<movie>>)
         /\ uuids' = uuids + 1
         /\ clock' = clock + 1
         /\ UNCHANGED <<actors, inflight>>

\* POST /api/movies/{movie_id}/photo
upload_movie_photo(id, file, token, saved) ==
  /\ IF ~IsImage(file)
       THEN /\ last' = Response("upload_movie_photo", id, file, TRUE, 400, <<>>)
            /\ UNCHANGED movies
       ELSE IF ~saved
       THEN /\ last' = Response("upload_movie_photo", id, file, TRUE, 500, <<>>)
            /\ UNCHANGED movies
       ELSE LET photo_url == PhotoUrl("movie", id, token, file)
            IN  /\ movies' = UpdateOne(movies, id, [photo_couverture |-> Some(photo_url)])
                /\ last' = Response("upload_movie_photo", id, file, TRUE, 200, <<photo_url>>)
  /\ UNCHANGED <<actors, uuids, clock, inflight>>

\* GET /api/movies/{movie_id}
get_movie(id) ==
  /\ LET movie == FindOne(movies, id)
     IN  IF IsNone(movie)
           THEN last' = Response("get_movie", id, None, TRUE, 404, <<>>)
           ELSE last' = Response("get_movie", id, None, TRUE, 200, movie)
  /\ UNCHANGED <<actors, movies, uuids, clock, inflight>>

\* PUT /api/movies/{movie_id}
update_movie(id, p) ==
  /\ IF ~ValidCreate(p)
       THEN /\ last' = Response("update_movie", id, p, FALSE, 422, <<>>)
            /\ UNCHANGED movies
       ELSE IF IsNone(FindOne(movies, id))
       THEN /\ last' = Response("update_movie", id, p, TRUE, 404, <<>>)
            /\ UNCHANGED movies
       ELSE LET updated == UpdateOne(movies, id, UpdateData(MovieCreateDict(p)))
            IN  /\ movies' = updated
                /\ last' = Response("update_movie", id, p, TRUE, 200, FindOne(updated, id))
  /\ UNCHANGED <<actors, uuids, clock, inflight>>

\* DELETE /api/movies/{movie_id}
delete_movie(id) ==
  /\ movies' = DeleteOne(movies, id)
  /\ IF DeletedCount(movies, id) = 0
       THEN last' = Response("delete_movie", id, None, TRUE, 404, <<>>)
       ELSE last' = Response("delete_movie", id, None, TRUE, 200, <<>>)
  /\ UNCHANGED <<actors, uuids, clock, inflight>>

(* ---------------------------- specification --------------------------- *)

CreateActor == \E p \in ActorPayloads : create_actor(p)

UploadActorPhoto ==
  \E id \in PathIds, file \in Files, token \in Tokens, saved \in BOOLEAN :
    upload_actor_photo(id, file, token, saved)

GetActor == \E id \in PathIds : get_actor(id)

UpdateActor == \E id \in PathIds, p \in ActorPayloads : update_actor(id, p)

DeleteActor == \E id \in PathIds : delete_actor(id)

CreateMovie == \E p \in MoviePayloads : create_movie(p)

UploadMoviePhoto ==
  \E id \in PathIds, file \in Files, token \in Tokens, saved \in BOOLEAN :
    upload_movie_photo(id, file, token, saved)

GetMovie == \E id \in PathIds : get_movie(id)

UpdateMovie == \E id \in PathIds, p \in MoviePayloads : update_movie(id, p)

DeleteMovie == \E id \in PathIds : delete_movie(id)

Next ==
  \/ CreateActor
  \/ UploadActorPhoto
  \/ GetActor
  \/ UpdateActor
  \/ DeleteActor
  \/ CreateMovie
  \/ UploadMoviePhoto
  \/ GetMovie
  \/ UpdateMovie
  \/ DeleteMovie

Spec == Init /\ [][Next]_vars

(* ---------------------------- list endpoints ------------------------- *)

\* limit: int = Query(50, le=100)
LimitOf(q) == IF q.limit = None THEN DefaultLimit ELSE Val(q.limit)

\* find(query).limit(limit).to_list(limit) behind a list endpoint: 422 when the
\* limit fails `le=100`, 500 when to_list refuses a negative length or the
\* server refuses a pattern, else the documents
ListResponse(op, coll, query, q) ==
  IF LimitOf(q) > MaxLimit
    THEN Response(op, 0, q, FALSE, 422, <<>>)
  ELSE IF LimitOf(q) < 0 \/ ~QueryValid(query)
    THEN Response(op, 0, q, TRUE, 500, <<>>)
  ELSE Response(op, 0, q, TRUE, 200,
                ToList(CursorLimit(Find(coll, query), LimitOf(q)), LimitOf(q)))

\* GET /api/actors
get_actors(q) ==
  /\ last' = ListResponse("get_actors", actors, ActorQuery(q), q)
  /\ UNCHANGED <<actors, movies, uuids, clock, inflight>>

\* GET /api/movies
get_movies(q) ==
  /\ last' = ListResponse("get_movies", movies, MovieQuery(q), q)
  /\ UNCHANGED <<actors, movies, uuids, clock, inflight>>

\* GET /api/genres
get_all_genres ==
  /\ last' = Response("get_all_genres", 0, None, TRUE, 200,
                      TruthyValues(Distinct(movies, "genre")))
  /\ UNCHANGED <<actors, movies, uuids, clock, inflight>>

\* GET /api/nationalities
get_all_nationalities ==
  /\ last' = Response("get_all_nationalities", 0, None, TRUE, 200,
                      TruthyValues(Distinct(actors, "nationalite")))
  /\ UNCHANGED <<actors, movies, uuids, clock, inflight>>

(* ------------- the read-only endpoints on an arbitrary store ---------- *)

ListActorPayloads ==
  { ActorCreate(Some(<<"A", "b">>), Some(48), Some(<<"B">>), None, None),
    ActorCreate(Some(<<"b">>), None, None, Some(<<"a">>), None),
    ActorCreate(Some(<<>>), Some(0), Some(<<"a">>), Some(<<>>), None) }

ListMoviePayloads ==
  { MovieCreate(Some(<<"A", "b">>), Some(2007), Some(<<"a">>), Some(<<"b", ".">>), None, None),
    MovieCreate(Some(<<"b">>), None, None, Some(<<"a">>), None, None),
    MovieCreate(Some(<<>>), Some(0), Some(<<>>), None, None, None) }

\* search strings: absent, empty, literals in either case, and regex metacharacters
Searches ==
  { None, Some(<<>>), Some(<<"a">>), Some(<<"a", "B">>), Some(<<".">>), Some(<<"*">>),
    Some(<<"(">>), Some(<<"b", "*">>) }

Limits == {None, Some(0 - 1), Some(0), Some(1), Some(MaxLimit), Some(MaxLimit + 1)}

ActorListRequests ==
  [search : Searches, nom : {None, Some(<<"b">>)}, nationalite : {None, Some(<<"b">>)},
   age_min : {None, Some(0), Some(45)}, age_max : {None, Some(40), Some(55)},
   limit : Limits]

MovieListRequests ==
  [search : Searches, nom : {None, Some(<<"b">>)}, genre : {None, Some(<<"A">>)},
   annee : {None, Some(0), Some(2007)}, limit : Limits]

SeqsUpTo(S, n) == UNION {[1..k -> S] : k \in 0..n}

\* the store after the actors of payloads pa, then the movies of payloads pm,
\* were created
CreatedStore(pa, pm) ==
  [actors |-> [i \in 1..Len(pa) |-> Actor(ActorCreateDict(pa[i]), NewId(i - 1), i - 1)],
   movies |-> [j \in 1..Len(pm) |->
                 Movie(MovieCreateDict(pm[j]), NewId(Len(pa) + j - 1), Len(pa) + j - 1)]]

InitList ==
  \E pa \in SeqsUpTo(ListActorPayloads, MaxIds), pm \in SeqsUpTo(ListMoviePayloads, MaxIds) :
    /\ Len(pa) + Len(pm) <= MaxIds
    /\ actors = CreatedStore(pa, pm).actors
    /\ movies = CreatedStore(pa, pm).movies
    /\ uuids = Len(pa) + Len(pm)
    /\ clock = Len(pa) + Len(pm)
    /\ last = NoRequest
    /\ inflight = Idle

\* no request has been answered yet: each behaviour puts one request to its store
Fresh == last.op = "none"

GetActors == Fresh /\ \E q \in ActorListRequests : get_actors(q)

GetMovies == Fresh /\ \E q \in MovieListRequests : get_movies(q)

GetAllGenres == Fresh /\ get_all_genres

GetAllNationalities == Fresh /\ get_all_nationalities

NextList ==
  \/ GetActors
  \/ GetMovies
  \/ GetAllGenres
  \/ GetAllNationalities

SpecList == InitList /\ [][NextList]_vars

(* ------------------------- reading a response ------------------------- *)

ActorOps == {"create_actor", "upload_actor_photo", "get_actor", "update_actor", "delete_actor"}

CreateOps == {"create_actor", "create_movie"}

UploadOps == {"upload_actor_photo", "upload_movie_photo"}

GetOps == {"get_actor", "get_movie"}

UpdateOps == {"update_actor", "update_movie"}

DeleteOps == {"delete_actor", "delete_movie"}

\* the collection the last request addressed, before and after it
Before == IF last.op \in ActorOps THEN last.pre.actors ELSE last.pre.movies

After == IF last.op \in ActorOps THEN actors ELSE movies

PhotoOf(doc) == IF "photo_profil" \in DOMAIN doc THEN doc.photo_profil ELSE doc.photo_couverture

DocOf(coll, id) == coll[CHOOSE i \in 1..Len(coll) : coll[i].id = id]

\* the last request named a record that was stored when it arrived
Existed == last.id \in Ids(Before)

\* the fields a request body supplies with a non-null value
Supplied(p) == {f \in DOMAIN p : p[f] # None}

(* -------------------------------- C1 ---------------------------------- *)

\* C1: an update of an existing record is accepted whatever subset of the fields
\* its payload carries, and every field the payload does not supply with a
\* non-null value (the cross-reference list included) keeps its stored value.
C1_PartialUpdateKeepsOtherFields ==
  (last.op \in UpdateOps /\ Existed) =>
     /\ last.status = 200
     /\ last.id \in Ids(After)
     /\ \A f \in DOMAIN last.req :
          f \notin Supplied(last.req) =>
            DocOf(After, last.id)[f] = DocOf(Before, last.id)[f]

(* -------------------------------- C2 ---------------------------------- *)

\* C2: get, update and delete, called with an identifier no stored record has,
\* end with 404 and leave both collections exactly as they were.
C2_UnknownIdIsNotFound ==
  (last.op \in GetOps \cup UpdateOps \cup DeleteOps /\ last.handler /\ ~Existed) =>
     /\ last.status = 404
     /\ Store = last.pre

C2_Witness ==
  /\ last.op \in UpdateOps /\ last.handler /\ ~Existed
  /\ After # <<>>
  /\ last.status = 404

(* -------------------------------- C3 ---------------------------------- *)

\* C3 as stated: attaching an image (one the server could save) to an identifier
\* no stored record has returns a not-found signal and leaves the collections
\* unchanged.
C3_UnknownIdPhotoIsNotFound ==
  (last.op \in UploadOps /\ IsImage(last.req) /\ ~Existed /\ last.status # 500) =>
     /\ last.status = 404
     /\ Store = last.pre

\* C3 as amended: attaching an image to an identifier no stored record has never
\* creates or changes a record; it is answered 200 with the photo_url of the
\* saved file (or 500 when the file could not be saved), never 404.
C3_UnknownIdPhotoCreatesNothing ==
  (last.op \in UploadOps /\ IsImage(last.req) /\ ~Existed) =>
     /\ Store = last.pre
     /\ last.status \in {200, 500}
     /\ last.status = 200 => Len(last.body) = 1

C3_Witness ==
  /\ last.op \in UploadOps /\ IsImage(last.req) /\ ~Existed
  /\ last.status = 200
  /\ After # <<>>

(* -------------------------------- C5 ---------------------------------- *)

\* C5 as stated: create answers a payload whose name is missing or empty with a
\* validation error and inserts nothing; with a non-empty name it inserts
\* exactly the one record it returns, which carries the identifier and
\* timestamp it assigned.
C5_CreateRequiresNonEmptyName ==
  last.op \in CreateOps =>
     IF IsNone(last.req.nom) \/ Val(last.req.nom) = <<>>
       THEN last.status = 422 /\ Store = last.pre
       ELSE /\ last.status = 200
            /\ Len(last.body) = 1
            /\ After = Append(Before, last.body[1])
            /\ last.body[1].id = last.id

\* C5 as amended: create answers a payload whose name is missing with a
\* validation error and inserts nothing; with any name, the empty string
\* included, it inserts exactly the one record it returns, which carries that
\* name and the identifier and timestamp the server assigned.
C5_CreateRequiresName ==
  last.op \in CreateOps =>
     IF IsNone(last.req.nom)
       THEN last.status = 422 /\ Store = last.pre
       ELSE /\ last.status = 200
            /\ Len(last.body) = 1
            /\ After = Append(Before, last.body[1])
            /\ last.body[1].nom = last.req.nom
            /\ last.body[1].id = last.id
            /\ last.body[1].id \notin Ids(Before)
            /\ last.body[1].created_at \in Nat
            /\ \/ last.op = "create_actor" /\ movies = last.pre.movies
               \/ last.op = "create_movie" /\ actors = last.pre.actors

C5_Witness ==
  /\ last.op \in CreateOps /\ last.status = 200
  /\ last.req.nom = Some(<<>>)
  /\ Before # <<>>
  /\ Len(After) = Len(Before) + 1

(* -------------------------------- C6 ---------------------------------- *)

\* C6: no two records of one collection share an identifier; create returns an
\* identifier no stored record of that type had; and get of a stored identifier
\* returns a record with that identifier.
C6_IdentifiersUniqueAndStable ==
  /\ \A i, j \in 1..Len(actors) : actors[i].id = actors[j].id => i = j
  /\ \A i, j \in 1..Len(movies) : movies[i].id = movies[j].id => i = j
  /\ (last.op \in CreateOps /\ last.status = 200) =>
        /\ last.body[1].id \notin Ids(Before)
        /\ last.body[1].id \in Ids(After)
  /\ (last.op \in GetOps /\ Existed) =>
        /\ last.status = 200
        /\ last.body[1].id = last.id

C6_Witness ==
  /\ Len(actors) = 2
  /\ last.op = "get_actor" /\ last.id = actors[2].id
  /\ last.status = 200

(* -------------------------------- C7 ---------------------------------- *)

\* C7: update leaves the identifier, the creation timestamp and the photo
\* reference of the record as they were; no request but a photo upload changes
\* the photo reference of a record that stays stored.
C7_UpdateKeepsServerFields ==
  /\ (last.op \in UpdateOps /\ Existed) =>
        /\ last.id \in Ids(After)
        /\ DocOf(After, last.id).created_at = DocOf(Before, last.id).created_at
        /\ PhotoOf(DocOf(After, last.id)) = PhotoOf(DocOf(Before, last.id))
        /\ Len(After) = Len(Before)
        /\ \A i \in 1..Len(After) : After[i].id = Before[i].id
  /\ (last.op \notin UploadOps /\ last.op # "none") =>
        \A id \in Ids(After) \cap Ids(Before) :
          PhotoOf(DocOf(After, id)) = PhotoOf(DocOf(Before, id))

C7_Witness ==
  /\ last.op \in UpdateOps /\ Existed /\ last.status = 200
  /\ PhotoOf(DocOf(Before, last.id)) # None
  /\ DocOf(After, last.id) # DocOf(Before, last.id)

(* ----------------------- reading a list response ---------------------- *)

ListOps == {"get_actors", "get_movies"}

\* the collection a list or distinct request reads
Listed == IF last.op \in {"get_actors", "get_all_nationalities"} THEN actors ELSE movies

Elems(seq) == {seq[i] : i \in 1..Len(seq)}

NoRepeats(seq) == \A i, j \in 1..Len(seq) : seq[i] = seq[j] => i = j

\* a string parameter that was sent and is not empty
Given(param) == param # None /\ Val(param) # <<>>

\* needle occurs in hay as a literal substring, letter case ignored
IsSubstring(needle, hay) ==
  \E k \in 0..(Len(hay) - Len(needle)) :
    \A i \in 1..Len(needle) : Lower(needle[i]) = Lower(hay[k + i])

(* -------------------------------- C4 ---------------------------------- *)

\* the effective limit of C4: 50 by default, the requested limit up to 100, else 100
ClampedLimit(limit) ==
  IF limit = None THEN 50 ELSE IF Val(limit) <= 100 THEN Val(limit) ELSE 100

\* C4 as stated: a list request with a limit above 100 is served, not rejected,
\* and a served list request returns at most the effective limit of records:
\* 50 by default, the requested limit up to 100, and 100 above that.
C4_LimitClampedTo100 ==
  last.op \in ListOps =>
     /\ (last.req.limit # None /\ Val(last.req.limit) > 100) => last.status = 200
     /\ last.status = 200 => Len(last.body) <= ClampedLimit(last.req.limit)

\* C4 as amended: a served list request returns at most the effective limit of
\* records, 50 by default and else the requested limit, which is at most 100; a
\* request with a limit above 100 is rejected with a validation error (422) and
\* returns no record.
C4_LimitAbove100Rejected ==
  last.op \in ListOps =>
     /\ (last.req.limit # None /\ Val(last.req.limit) > 100) =>
          (last.status = 422 /\ last.body = <<>>)
     /\ last.status = 200 =>
          /\ Len(last.body) <= (IF last.req.limit = None THEN 50 ELSE Val(last.req.limit))
          /\ Len(last.body) <= 100

C4_Witness ==
  /\ last.op \in ListOps /\ last.status = 200
  /\ last.req.limit = Some(1)
  /\ Len(Listed) = 2
  /\ Len(last.body) = 1

(* -------------------------------- C8 ---------------------------------- *)

\* the record satisfies every criterion the request supplies
SatisfiesActorCriteria(r, q) ==
  /\ Given(q.search) =>
       \/ RegexSearch(Val(q.search), Val(r.nom))
       \/ r.nationalite # None /\ RegexSearch(Val(q.search), Val(r.nationalite))
       \/ r.biographie # None /\ RegexSearch(Val(q.search), Val(r.biographie))
  /\ Given(q.nom) => RegexSearch(Val(q.nom), Val(r.nom))
  /\ Given(q.nationalite) =>
       (r.nationalite # None /\ RegexSearch(Val(q.nationalite), Val(r.nationalite)))
  /\ q.age_min # None => (r.age # None /\ Val(r.age) >= Val(q.age_min))
  /\ q.age_max # None => (r.age # None /\ Val(r.age) <= Val(q.age_max))

\* C8: a served listing of Persons returns only stored records that satisfy all
\* the supplied criteria together (search on one of three fields AND the name
\* and nationality filters AND the inclusive, independently optional age
\* bounds, a record without age failing any bound), and, up to the limit, every
\* such record; with no criterion every record qualifies.
C8_ActorFiltersAreConjoined ==
  (last.op = "get_actors" /\ last.status = 200) =>
     /\ \A i \in 1..Len(last.body) :
          /\ last.body[i] \in Elems(actors)
          /\ SatisfiesActorCriteria(last.body[i], last.req)
     /\ NoRepeats(last.body)
     /\ \A r \in Elems(actors) :
          SatisfiesActorCriteria(r, last.req) =>
            (r \in Elems(last.body) \/ Len(last.body) = LimitOf(last.req))
     /\ (last.req.limit = None
          /\ \A f \in {"search", "nom", "nationalite", "age_min", "age_max"} :
               last.req[f] = None)
        => last.body = actors

C8_Witness ==
  /\ last.op = "get_actors" /\ last.status = 200
  /\ Given(last.req.search) /\ Given(last.req.nom)
  /\ last.req.age_min = Some(0) /\ last.req.age_max = None
  /\ Len(last.body) = 1
  /\ \E r \in Elems(actors) :
       /\ r.age = None
       /\ SatisfiesActorCriteria(r, [last.req EXCEPT !.age_min = None])

(* -------------------------------- C9 ---------------------------------- *)

SearchFieldsOf(op) == IF op = "get_actors" THEN ActorSearchFields ELSE MovieSearchFields

\* the request carries the search parameter and nothing else
SearchOnly(q) == \A f \in DOMAIN q : f # "search" => q[f] = None

\* C9: for every search string s, a listing by search alone is served and
\* returns a stored record if and only if s is a literal substring, letter case
\* ignored, of one of the three searched fields of the record.
C9_SearchIsLiteralSubstring ==
  (last.op \in ListOps /\ last.req.search # None /\ SearchOnly(last.req)) =>
     /\ last.status = 200
     /\ \A r \in Elems(Listed) :
          r \in Elems(last.body) <=>
            \E f \in SearchFieldsOf(last.op) :
              r[f] # None /\ IsSubstring(Val(last.req.search), Val(r[f]))

(* -------------------------------- C10 --------------------------------- *)

DistinctOps == {"get_all_genres", "get_all_nationalities"}

DistinctField == IF last.op = "get_all_genres" THEN "genre" ELSE "nationalite"

\* C10 as stated: the genre (nationality) listing holds each non-null value
\* stored on some Work (Person) exactly once, and nothing else.
C10_DistinctNonNullValues ==
  last.op \in DistinctOps =>
     /\ NoRepeats(last.body)
     /\ Elems(last.body) =
          {Val(r[DistinctField]) : r \in {x \in Elems(Listed) : x[DistinctField] # None}}

\* C10 as amended: the genre (nationality) listing holds each non-null,
\* non-empty value stored on some Work (Person) exactly once, and nothing else.
C10_DistinctNonEmptyValues ==
  last.op \in DistinctOps =>
     /\ NoRepeats(last.body)
     /\ Elems(last.body) =
          {Val(r[DistinctField]) :
             r \in {x \in Elems(Listed) : x[DistinctField] # None /\ Val(x[DistinctField]) # <<>>}}

C10_Witness ==
  /\ last.op = "get_all_genres"
  /\ Len(movies) = 2
  /\ movies[1].genre = movies[2].genre
  /\ Len(last.body) = 1

(* ----------------------------- global search -------------------------- *)

\* {"$or": [{f: search_regex} for the fields]} of global_search: built for
\* every q, the empty string included
SearchQuery(fields, q) == Query(Some([fields |-> fields, regex |-> q]), {}, {}, {})

GlobalFindUnlimited(coll, query) == Find(coll, query)

\* find(query).limit(10).to_list(10)
GlobalFind(coll, query) ==
  ToList(CursorLimit(Find(coll, query), SearchLimit), SearchLimit)

\* GET /api/search: q is required (422 without it); a pattern the server
\* refuses ends the request with 500
global_search(q) ==
  /\ IF q = None
       THEN last' = Response("global_search", 0, q, FALSE, 422, <<>>)
       ELSE IF ~RegexValid(Val(q))
       THEN last' = Response("global_search", 0, q, TRUE, 500, <<>>)
       ELSE last' = Response("global_search", 0, q, TRUE, 200,
                       [actors |-> GlobalFind(actors, SearchQuery(ActorSearchFields, Val(q))),
                        movies |-> GlobalFind(movies, SearchQuery(MovieSearchFields, Val(q)))])
  /\ UNCHANGED <<actors, movies, uuids, clock, inflight>>

\* number of records of one payload in a store filled by repeated creation
MaxBulk == 11

\* a payload created n times
Repeat(p, n) == [i \in 1..n |-> p]

\* the payload sequences behind the stores searched: the short ones, and each
\* payload created up to MaxBulk times
ActorCreations ==
  SeqsUpTo(ListActorPayloads, MaxIds)
    \cup {Repeat(p, n) : p \in ListActorPayloads, n \in 0..MaxBulk}

MovieCreations ==
  SeqsUpTo(ListMoviePayloads, MaxIds)
    \cup {Repeat(p, n) : p \in ListMoviePayloads, n \in 0..MaxBulk}

InitSearch ==
  \E pa \in ActorCreations, pm \in MovieCreations :
    /\ Len(pa) <= MaxIds \/ Len(pm) <= MaxIds
    /\ actors = CreatedStore(pa, pm).actors
    /\ movies = CreatedStore(pa, pm).movies
    /\ uuids = Len(pa) + Len(pm)
    /\ clock = Len(pa) + Len(pm)
    /\ last = NoRequest
    /\ inflight = Idle

GlobalSearch == Fresh /\ \E q \in Searches : global_search(q)

NextSearch == GlobalSearch

SpecSearch == InitSearch /\ [][NextSearch]_vars

(* -------------------------------- C11 --------------------------------- *)

\* the request list would serve for search = q and nothing else
SearchRequest(fields, q) == [f \in fields |-> IF f = "search" THEN q ELSE None]

ActorListFields == {"search", "nom", "nationalite", "age_min", "age_max", "limit"}

MovieListFields == {"search", "nom", "genre", "annee", "limit"}

\* C11: a served global search returns at most 10 Persons and at most 10 Works;
\* each list holds only stored records that satisfy the predicate the listing
\* of that entity type applies for search = q, and is what that predicate
\* selects from its own collection whatever the other collection holds (so
\* Works that match are returned when no Person does); the search is served
\* exactly for the q the listings serve.
C11_GlobalSearchUsesListPredicate ==
  /\ (last.op = "global_search" /\ last.handler) =>
       (last.status = 200 <=>
          /\ QueryValid(ActorQuery(SearchRequest(ActorListFields, last.req)))
          /\ QueryValid(MovieQuery(SearchRequest(MovieListFields, last.req))))
  /\ (last.op = "global_search" /\ last.status = 200) =>
     /\ Len(last.body.actors) <= 10
     /\ Len(last.body.movies) <= 10
     /\ \A r \in Elems(last.body.actors) :
          /\ r \in Elems(actors)
          /\ DocMatches(r, ActorQuery(SearchRequest(ActorListFields, last.req)))
     /\ \A r \in Elems(last.body.movies) :
          /\ r \in Elems(movies)
          /\ DocMatches(r, MovieQuery(SearchRequest(MovieListFields, last.req)))
     /\ last.body.actors =
          Take(Find(actors, ActorQuery(SearchRequest(ActorListFields, last.req))), 10)
     /\ last.body.movies =
          Take(Find(movies, MovieQuery(SearchRequest(MovieListFields, last.req))), 10)

C11_Witness ==
  /\ last.op = "global_search" /\ last.status = 200
  /\ actors # <<>>
  /\ last.body.actors = <<>>
  /\ last.body.movies # <<>>

\* a global search that the cap of 10 cuts short
C11_WitnessCapped ==
  /\ last.op = "global_search" /\ last.status = 200
  /\ Len(movies) > 10
  /\ Len(last.body.movies) = 10

(* ------------------- update_actor, await by await --------------------- *)

\* the position of an update_actor request and, once it has ended, its answer
InFlight(pc, id, req, handler, status, body) ==
  [pc |-> pc, id |-> id, req |-> req, handler |-> handler, status |-> status,
   body |-> body]

\* PUT /api/actors/{actor_id} up to its first await: the body is validated and
\* the existence check find_one runs; an unknown id ends the request with 404
update_actor_find(id, p) ==
  /\ inflight.pc = "idle"
  /\ IF ~ValidCreate(p)
       THEN inflight' = InFlight("done", id, p, FALSE, 422, <<>>)
       ELSE IF IsNone(FindOne(actors, id))
       THEN inflight' = InFlight("done", id, p, TRUE, 404, <<>>)
       ELSE inflight' = InFlight("found", id, p, TRUE, 0, <<>>)
  /\ UNCHANGED <<actors, movies, uuids, clock, last>>

\* the second await: update_one({"id": actor_id}, {"$set": update_data})
update_actor_write ==
  /\ inflight.pc = "found"
  /\ actors' = UpdateOne(actors, inflight.id, UpdateData(ActorCreateDict(inflight.req)))
  /\ inflight' = [inflight EXCEPT !.pc = "written"]
  /\ UNCHANGED <<movies, uuids, clock, last>>

\* the third await and the return: Actor(**updated) of the refetched document;
\* find_one returning None makes Actor(**None) raise TypeError, answered 500
update_actor_return ==
  /\ inflight.pc = "written"
  /\ LET updated == FindOne(actors, inflight.id)
     IN  IF IsNone(updated)
           THEN inflight' = [inflight EXCEPT !.pc = "done", !.status = 500]
           ELSE inflight' = [inflight EXCEPT !.pc = "done", !.status = 200,
                                             !.body = updated]
  /\ UNCHANGED <<actors, movies, uuids, clock, last>>

InitRace ==
  \E pa \in SeqsUpTo(ListActorPayloads, MaxIds) :
    /\ actors = CreatedStore(pa, <<>>).actors
    /\ movies = <<>>
    /\ uuids = Len(pa)
    /\ clock = Len(pa)
    /\ last = NoRequest
    /\ inflight = Idle

UpdateFind == \E id \in PathIds, p \in ActorPayloads : update_actor_find(id, p)

UpdateWrite == update_actor_write

UpdateReturn == update_actor_return

\* the event loop runs a delete_actor request at any await of the update
NextRace ==
  \/ UpdateFind
  \/ UpdateWrite
  \/ UpdateReturn
  \/ DeleteActor

SpecRace == InitRace /\ [][NextRace]_vars

(* -------------------------------- C12 --------------------------------- *)

\* a delete_actor request removed the record the update is about
DeleteRemovedIt ==
  last.op = "delete_actor" /\ last.status = 200 /\ last.id = inflight.id

\* C12: however delete requests for the same record interleave with an update
\* whose handler ran, the update ends either not found or with a returned
\* record of that identifier, never in another failure, and a record the
\* delete removed is not in the collection afterwards.
C12_UpdateEndsNotFoundOrReturned ==
  /\ (inflight.pc = "done" /\ inflight.handler) =>
       \/ inflight.status = 404
       \/ /\ inflight.status = 200
          /\ Len(inflight.body) = 1
          /\ inflight.body[1].id = inflight.id
  /\ (inflight.pc # "idle" /\ DeleteRemovedIt) => IsNone(FindOne(actors, inflight.id))

\* no await of the update and no delete brings a record into the collection
C12_NoRemovedRecordComesBack ==
  [][Ids(actors') \subseteq Ids(actors)]_vars

\* the update ends otherwise only when a delete removed its record between
\* the existence check and the refetch
C12_OtherFailureOnlyAfterDelete ==
  (inflight.pc = "done" /\ inflight.handler /\ inflight.status \notin {200, 404}) =>
     /\ inflight.status = 500
     /\ IsNone(FindOne(actors, inflight.id))

====
